---- MODULE Spec2Model ----
(***************************************************************************)
(* Model of tools/matter/matter-thread-diag.py: the websocket exchange of  *)
(* get_nodes, the three passes of update_devices_info over the global      *)
(* devices list, and the graph built by plot_thread_topology.              *)
(*                                                                         *)
(* Python values are modelled as follows.  A dict is a function whose      *)
(* DOMAIN is the set of keys present; dict.get(k, d) is Get(d, k, dflt).   *)
(* A list is a sequence.  A str is a TLA+ string; a str that the code      *)
(* scans character by character (a base64 text) is a sequence of           *)
(* one-character strings.  A 64-bit integer is a tuple of four 16-bit      *)
(* limbs, most significant first.  The result of dict.get(k) without a     *)
(* default is an option: <<v>> when the key is present, None (the empty    *)
(* tuple) when it is absent.                                               *)
(***************************************************************************)
EXTENDS Integers, Sequences, FiniteSets, TLC

VARIABLES
    devices,    \* the global devices list (line 29)
    nodes,      \* the snapshot held by the running handler, <<>> when none
    pc,         \* position of the program
    i,          \* index of the node a pass is about to process
    caller,     \* "main" (startup, lines 297-309) or "on_refresh"
    device,     \* the local `device` of plot_thread_topology: None while unbound, <<dev>> once assigned
    G,          \* the networkx graph: [nodes: ext_addr -> attrs, edges: {u, v} -> attrs]
    calls,      \* the add_edge calls of the current plot, in order, with the neighbor entry's LQI and RSSI
    sent,       \* requests sent on the websocket by the current get_nodes call
    response,   \* the local `response` of get_nodes: None, or <<message>> once received
    file,       \* content of nodes.json: None before the first write, <<list>> after
    err,        \* the exception that ended the last handler, "none" otherwise
    refreshes   \* number of clicks on the Refresh button so far

vars == <<devices, nodes, pc, i, caller, device, G, calls, sent, response, file, err, refreshes>>

-----------------------------------------------------------------------------
(* Bounds of the model *)

MaxNodes == 2

MaxRefresh == 2

-----------------------------------------------------------------------------
(* Python values *)

None == <<>>

\* dict.get(k): None when the key is absent
GetOpt(d, k) == IF k \in DOMAIN d THEN <<d[k]>> ELSE None

\* the value None where the code holds it in a variable compared with strs:
\* equal to no str of the program
NoneStr == "<None>"

\* {}
EmptyDict == [k \in {} |-> 0]

Get(d, k, dflt) == IF k \in DOMAIN d THEN d[k] ELSE dflt

Range(s) == {s[k] : k \in 1..Len(s)}

HexDigits == <<"0", "1", "2", "3", "4", "5", "6", "7", "8", "9", "A", "B", "C", "D", "E", "F">>

\* f"{b:02X}" for a byte b
Hex2(b) == HexDigits[(b \div 16) + 1] \o HexDigits[(b % 16) + 1]

RECURSIVE JoinColon(_)
\* ":".join(f"{b:02X}" for b in bytes)
JoinColon(bytes) ==
    IF Len(bytes) = 0 THEN ""
    ELSE IF Len(bytes) = 1 THEN Hex2(bytes[1])
    ELSE Hex2(bytes[1]) \o ":" \o JoinColon(Tail(bytes))

RECURSIVE HexStr(_)
\* f"{n:X}" for n >= 0
HexStr(n) == IF n < 16 THEN HexDigits[n + 1] ELSE HexStr(n \div 16) \o HexDigits[(n % 16) + 1]

RECURSIVE StrJoin(_)
\* the str whose characters are the elements of chars
StrJoin(chars) == IF Len(chars) = 0 THEN "" ELSE chars[1] \o StrJoin(Tail(chars))

\* int_to_eui64: the eight bytes of val, most significant first, as hex pairs
\* joined by ":"; str(val) when int(val) raises (val is None).
int_to_eui64(val) ==
    IF val = None THEN "None"
    ELSE LET intval == val[1]
         IN  JoinColon([k \in 1..8 |->
                IF k % 2 = 1 THEN (intval[(k + 1) \div 2] \div 256) % 256
                             ELSE intval[(k + 1) \div 2] % 256])

\* int_to_rolc16: f"0x{intval:04X}", str(val) when int(val) raises
int_to_rolc16(val) ==
    IF val = None THEN "None"
    ELSE LET intval == val[1]
             pad == IF intval < 16 THEN "000" ELSE IF intval < 256 THEN "00"
                    ELSE IF intval < 4096 THEN "0" ELSE ""
         IN  "0x" \o pad \o HexStr(intval)

B64Alphabet ==
    <<"A", "B", "C", "D", "E", "F", "G", "H", "I", "J", "K", "L", "M", "N", "O", "P",
      "Q", "R", "S", "T", "U", "V", "W", "X", "Y", "Z", "a", "b", "c", "d", "e", "f",
      "g", "h", "i", "j", "k", "l", "m", "n", "o", "p", "q", "r", "s", "t", "u", "v",
      "w", "x", "y", "z", "0", "1", "2", "3", "4", "5", "6", "7", "8", "9", "+", "/">>

B64Val(c) == (CHOOSE k \in 1..64 : B64Alphabet[k] = c) - 1

\* the bytes of one group of four base64 characters ("=" pads the last group)
B64Group(g) ==
    LET a == B64Val(g[1])
        b == B64Val(g[2])
        c == IF g[3] = "=" THEN 0 ELSE B64Val(g[3])
        d == IF g[4] = "=" THEN 0 ELSE B64Val(g[4])
        b1 == a * 4 + (b \div 16)
        b2 == (b % 16) * 16 + (c \div 4)
        b3 == (c % 4) * 64 + d
    IN  IF g[3] = "=" THEN <<b1>> ELSE IF g[4] = "=" THEN <<b1, b2>> ELSE <<b1, b2, b3>>

RECURSIVE B64Bytes(_)
B64Bytes(chars) ==
    IF Len(chars) = 0 THEN <<>>
    ELSE B64Group(SubSeq(chars, 1, 4)) \o B64Bytes(SubSeq(chars, 5, Len(chars)))

\* base64.b64decode raises on None and on a text whose length is no multiple of four
B64Raises(b64str) == b64str = None \/ Len(b64str[1]) % 4 # 0

\* bas64_to_eui64: the decoded bytes as hex pairs joined by ":", the argument
\* itself when decoding raises
bas64_to_eui64(b64str) ==
    IF B64Raises(b64str)
    THEN (IF b64str = None THEN NoneStr ELSE StrJoin(b64str[1]))
    ELSE JoinColon(B64Bytes(b64str[1]))

-----------------------------------------------------------------------------
(* DeviceStruct and the static table *)

\* the dataclass with its defaults
DeviceStruct == [id |-> 0, ext_addr |-> "", rloc16 |-> "", best_lqi |-> 0, best_rssi |-> 0,
                 available |-> TRUE, is_child |-> FALSE, product_name |-> ""]

static_devices_info ==
    << [DeviceStruct EXCEPT !.id = 0, !.ext_addr = "12:08:14:BC:94:5E:82:A3",
                            !.product_name = "Open Thread Border Router"],
       [DeviceStruct EXCEPT !.id = 1, !.ext_addr = "AE:1C:B7:01:D3:7F:5E:1F",
                            !.product_name = "Onvis S4"],
       [DeviceStruct EXCEPT !.id = 15, !.ext_addr = "8E:B1:BF:2C:82:DD:C9:F5",
                            !.product_name = "Arduino Matter Device LED"] >>

\* index of the first element of devs whose ext_addr is addr, 0 when there is
\* none: the scan `for dev in devs: if dev.ext_addr == addr: ... break`
FirstWithAddr(devs, addr) ==
    IF \E k \in 1..Len(devs) : devs[k].ext_addr = addr
    THEN CHOOSE k \in 1..Len(devs) :
            devs[k].ext_addr = addr /\ \A j \in 1..(k - 1) : devs[j].ext_addr # addr
    ELSE 0

\* index of the first element of devs whose id is id, 0 when there is none:
\* the scan `for dev in devices: if dev.id == node_id: ... break`
FirstWithId(devs, id) ==
    IF \E k \in 1..Len(devs) : devs[k].id = id
    THEN CHOOSE k \in 1..Len(devs) : devs[k].id = id /\ \A j \in 1..(k - 1) : devs[j].id # id
    ELSE 0

\* node.get("attributes", {})
Attrs(node) == Get(node, "attributes", EmptyDict)

\* attrs.get("0/53/7", [])
Neighbors(node) == Get(Attrs(node), "0/53/7", <<>>)

\* attrs.get("0/51/0", [])
Interfaces(node) == Get(Attrs(node), "0/51/0", <<>>)

-----------------------------------------------------------------------------
(* Pass 1: init_devices_from_neighbors_table *)

\* InitNeighbor without the membership test of line 79
InitNeighborNoTest(devs, neighbor) ==
    Append(devs, [DeviceStruct EXCEPT !.ext_addr = int_to_eui64(GetOpt(neighbor, "0")),
                                      !.rloc16 = int_to_rolc16(GetOpt(neighbor, "2")),
                                      !.is_child = Get(neighbor, "13", FALSE)])

\* body of the loop over neighbors (lines 75-81)
InitNeighbor(devs, neighbor) ==
    LET ext_addr == int_to_eui64(GetOpt(neighbor, "0"))
        rloc16_raw == GetOpt(neighbor, "2")
        is_child == Get(neighbor, "13", FALSE)
    IN  IF \E k \in 1..Len(devs) : devs[k].ext_addr = ext_addr
        THEN devs
        ELSE Append(devs, [DeviceStruct EXCEPT !.ext_addr = ext_addr,
                                               !.rloc16 = int_to_rolc16(rloc16_raw),
                                               !.is_child = is_child])

RECURSIVE InitNeighbors(_, _)
InitNeighbors(devs, neighbors) ==
    IF Len(neighbors) = 0 THEN devs
    ELSE InitNeighbors(InitNeighbor(devs, Head(neighbors)), Tail(neighbors))

\* body of the loop over nodes (lines 56-81)
InitNode(devs, node) == InitNeighbors(devs, Neighbors(node))

-----------------------------------------------------------------------------
(* Pass 2: fill_node_id *)

\* body of the loop over interfaces (lines 113-122)
FillInterface(devs, node, interface) ==
    IF GetOpt(interface, "7") = <<4>>
    THEN LET hw_addr == bas64_to_eui64(GetOpt(interface, "4"))
             k == FirstWithAddr(devs, hw_addr)
         IN  IF k = 0 THEN devs
             ELSE [devs EXCEPT ![k] = [@ EXCEPT !.id = node["node_id"],
                                                !.product_name = Get(Attrs(node), "0/40/3", "")]]
    ELSE devs

RECURSIVE FillInterfaces(_, _, _)
FillInterfaces(devs, node, interfaces) ==
    IF Len(interfaces) = 0 THEN devs
    ELSE FillInterfaces(FillInterface(devs, node, Head(interfaces)), node, Tail(interfaces))

\* body of the loop over nodes (lines 89-124)
FillNodeIdNode(devs, node) == FillInterfaces(devs, node, Interfaces(node))

\* the devices the static pass treats as incomplete (line 128)
Incomplete(dev) == dev.id = 0

\* body of the loop over devices of the static pass (lines 128-133)
StaticDevice(dev) ==
    LET k == FirstWithAddr(static_devices_info, dev.ext_addr)
    IN  IF Incomplete(dev) /\ k # 0
        THEN [dev EXCEPT !.id = static_devices_info[k].id,
                         !.product_name = static_devices_info[k].product_name]
        ELSE dev

\* the static pass (lines 127-133)
StaticFill(devs) == [k \in 1..Len(devs) |-> StaticDevice(devs[k])]

RECURSIVE InsertById(_, _)
\* dev inserted into the sorted list after every element whose id is not greater
InsertById(sorted, dev) ==
    IF Len(sorted) = 0 THEN <<dev>>
    ELSE IF dev.id < Head(sorted).id THEN <<dev>> \o sorted
    ELSE <<Head(sorted)>> \o InsertById(Tail(sorted), dev)

RECURSIVE SortFrom(_, _)
SortFrom(sorted, rest) ==
    IF Len(rest) = 0 THEN sorted ELSE SortFrom(InsertById(sorted, Head(rest)), Tail(rest))

\* devices.sort(key=lambda dev: dev.id): a stable sort (line 136)
SortById(devs) == SortFrom(<<>>, devs)

-----------------------------------------------------------------------------
(* Pass 3: fill_info *)

\* body of the loop over neighbors (lines 152-158)
InfoNeighbor(dev, neighbor) ==
    LET lqi == Get(neighbor, "5", 0)
        rssi == Get(neighbor, "7", 0)
    IN  IF lqi > dev.best_lqi
        THEN [dev EXCEPT !.best_lqi = lqi, !.best_rssi = rssi]
        ELSE IF lqi = dev.best_lqi /\ rssi > dev.best_rssi
        THEN [dev EXCEPT !.best_rssi = rssi]
        ELSE dev

RECURSIVE InfoNeighbors(_, _)
InfoNeighbors(dev, neighbors) ==
    IF Len(neighbors) = 0 THEN dev
    ELSE InfoNeighbors(InfoNeighbor(dev, Head(neighbors)), Tail(neighbors))

\* FillInfoNode starting each device's search for its best link from zero
FillInfoNodeFromZero(devs, node) ==
    LET k == FirstWithId(devs, node["node_id"])
    IN  IF k = 0 THEN devs
        ELSE [devs EXCEPT ![k] =
                InfoNeighbors([@ EXCEPT !.available = Get(node, "available", FALSE),
                                        !.best_lqi = 0, !.best_rssi = 0],
                              Neighbors(node))]

\* body of the loop over nodes (lines 144-160): the first device with the node's id
FillInfoNode(devs, node) ==
    LET k == FirstWithId(devs, node["node_id"])
    IN  IF k = 0 THEN devs
        ELSE [devs EXCEPT ![k] =
                InfoNeighbors([@ EXCEPT !.available = Get(node, "available", FALSE)],
                              Neighbors(node))]

-----------------------------------------------------------------------------
(* update_devices_info as a function of the registry and the snapshot *)

RECURSIVE InitPass(_, _)
InitPass(devs, ns) == IF Len(ns) = 0 THEN devs ELSE InitPass(InitNode(devs, Head(ns)), Tail(ns))

RECURSIVE FillIdLoop(_, _)
FillIdLoop(devs, ns) ==
    IF Len(ns) = 0 THEN devs ELSE FillIdLoop(FillNodeIdNode(devs, Head(ns)), Tail(ns))

\* what follows the loop over nodes in fill_node_id (lines 127-136)
StaticAndSort(devs) == SortById(StaticFill(devs))

RECURSIVE FillInfoPass(_, _)
FillInfoPass(devs, ns) ==
    IF Len(ns) = 0 THEN devs ELSE FillInfoPass(FillInfoNode(devs, Head(ns)), Tail(ns))

\* lines 289-291
UpdateDevices(devs, ns) ==
    FillInfoPass(StaticAndSort(FillIdLoop(InitPass(devs, ns), ns)), ns)

-----------------------------------------------------------------------------
(* plot_thread_topology *)

color_from_lqi(lqi) ==
    CASE lqi = 1 -> "red" [] lqi = 2 -> "orange" [] lqi = 3 -> "green" [] OTHER -> "skyblue"

color_from_rssi(rssi) ==
    IF rssi >= -60 THEN "green"
    ELSE IF rssi >= -75 THEN "orange"
    ELSE IF rssi >= -90 THEN "red"
    ELSE "purple"

width_from_lqi(lqi) ==
    CASE lqi = 1 -> 1 [] lqi = 2 -> 3 [] lqi = 3 -> 5 [] OTHER -> 1

EmptyGraph == [nodes |-> EmptyDict, edges |-> EmptyDict]

\* dict d with d[k] = v
Put(d, k, v) == [x \in DOMAIN d \cup {k} |-> IF x = k THEN v ELSE d[x]]

\* colour of a device's graph node (lines 204-210)
NodeColor(dev) ==
    IF ~dev.available THEN "grey" ELSE IF dev.is_child THEN "lightgreen" ELSE "skyblue"

\* G.add_node(dev.ext_addr, color=..., label=...) (line 211); the label
\* f"{dev.id}\n{dev.product_name}" is kept as the pair it is formatted from
AddDeviceNode(g, dev) ==
    [g EXCEPT !.nodes = Put(@, dev.ext_addr,
                            [color |-> NodeColor(dev), label |-> <<dev.id, dev.product_name>>])]

RECURSIVE AddDeviceNodes(_, _)
\* the loop over devices (lines 203-211)
AddDeviceNodes(g, devs) ==
    IF Len(devs) = 0 THEN g ELSE AddDeviceNodes(AddDeviceNode(g, Head(devs)), Tail(devs))

\* G.add_edge(u, v, color=..., width=...) on an undirected nx.Graph: both ends
\* become nodes (without attributes) when they are none yet, and the edge {u, v}
\* takes the given attributes
AddEdge(g, u, v, attrs) ==
    LET n1 == IF u \in DOMAIN g.nodes THEN g.nodes ELSE Put(g.nodes, u, EmptyDict)
        n2 == IF v \in DOMAIN n1 THEN n1 ELSE Put(n1, v, EmptyDict)
    IN  [nodes |-> n2, edges |-> Put(g.edges, {u, v}, attrs)]

\* EdgeCall with the colour taken from the LQI
EdgeCallColourByLqi(dev, n) ==
    LET neighbor_ext_addr == int_to_eui64(GetOpt(n, "0"))
        rssi == Get(n, "7", -100)
        lqi == Get(n, "5", 0)
    IN  [u |-> dev.ext_addr, v |-> neighbor_ext_addr, lqi |-> lqi, rssi |-> rssi,
         color |-> color_from_lqi(lqi), width |-> width_from_lqi(lqi)]

\* the arguments of the add_edge call of line 236 for neighbor entry n of the
\* node resolved to dev, with the locals lqi and rssi they are computed from
EdgeCall(dev, n) ==
    LET neighbor_ext_addr == int_to_eui64(GetOpt(n, "0"))
        rssi == Get(n, "7", -100)
        lqi == Get(n, "5", 0)
    IN  [u |-> dev.ext_addr, v |-> neighbor_ext_addr, lqi |-> lqi, rssi |-> rssi,
         color |-> color_from_rssi(rssi), width |-> width_from_lqi(lqi)]

RECURSIVE EdgeCalls(_, _)
\* the add_edge calls of the loop over neighbors (lines 231-236), in order
EdgeCalls(dev, neighbors) ==
    IF Len(neighbors) = 0 THEN <<>>
    ELSE <<EdgeCall(dev, Head(neighbors))>> \o EdgeCalls(dev, Tail(neighbors))

RECURSIVE ApplyCalls(_, _)
ApplyCalls(g, cs) ==
    IF Len(cs) = 0 THEN g
    ELSE ApplyCalls(AddEdge(g, Head(cs).u, Head(cs).v,
                            [color |-> Head(cs).color, width |-> Head(cs).width]), Tail(cs))

\* the value of the local `device` after the lookup loop of lines 216-219: the
\* first device with the node's id, or what the variable held before
LookupDevice(devs, held, node) ==
    LET k == FirstWithId(devs, node["node_id"])
    IN  IF k = 0 THEN held ELSE <<devs[k]>>

\* line 225 without the test of is_child
SkipsUnavailableOnly(dev) == ~dev.available

\* line 225
SkipsNode(dev) == dev.is_child \/ ~dev.available

-----------------------------------------------------------------------------
(* The snapshots and messages the server may send *)

\* ExtAddress of the border router, of the Onvis plug and of the Eve plug, as
\* the integers the neighbor tables carry (four 16-bit limbs)
AddrRouter == <<4616, 5308, 37982, 33443>>
AddrOnvis == <<44572, 46849, 54143, 24095>>
AddrEve == <<25165, 4001, 1987, 23520>>

\* base64 of the Eve plug's and the Onvis plug's Thread hardware address, and of a Wi-Fi MAC
B64Eve == <<"Y", "k", "0", "P", "o", "Q", "f", "D", "W", "+", "A", "=">>
B64Onvis == <<"r", "h", "y", "3", "A", "d", "N", "/", "X", "h", "8", "=">>
B64Wifi == <<"P", "G", "o", "s", "E", "C", "J", "/">>

\* a neighbor table entry with fields "0", "2", "5", "7" and "13"
Nb(ext, rloc, lqi, rssi, child) ==
    "0" :> ext @@ "2" :> rloc @@ "5" :> lqi @@ "7" :> rssi @@ "13" :> child

\* a neighbor table entry carrying the ExtAddress alone
NbBare(ext) == "0" :> ext

Iface(type, hw) == "7" :> type @@ "4" :> hw

\* the Eve plug: a router that reports its Thread interface, with the border
\* router and the Onvis plug (its child) as neighbors
NodeEve ==
    "node_id" :> 2 @@ "available" :> TRUE @@ "attributes" :>
        ("0/53/7" :> << Nb(AddrRouter, 1024, 3, -50, FALSE), Nb(AddrOnvis, 45057, 3, -70, TRUE) >>
         @@ "0/51/0" :> << Iface(1, B64Wifi), Iface(4, B64Eve) >>
         @@ "0/40/3" :> "Eve Energy")

\* the Eve plug seeing the border router alone, twice, and naming no product
NodeEveAlone ==
    "node_id" :> 2 @@ "available" :> TRUE @@ "attributes" :>
        ("0/53/7" :> << Nb(AddrRouter, 1024, 2, -70, FALSE), NbBare(AddrRouter) >>
         @@ "0/51/0" :> << Iface(4, B64Eve) >>)

\* the Onvis plug: no network-interface list, the Eve plug as its neighbor
NodeOnvis ==
    "node_id" :> 1 @@ "available" :> TRUE @@ "attributes" :>
        ("0/53/7" :> << Nb(AddrEve, 22528, 0, -70, FALSE) >> @@ "0/40/3" :> "Onvis S4")

\* a node without "attributes" and without "available"
NodeOff == "node_id" :> 2

\* a node with node_id 0 whose Thread interface is the Onvis plug's, without neighbor table
NodeZero ==
    "node_id" :> 0 @@ "available" :> TRUE @@ "attributes" :>
        ("0/51/0" :> << Iface(4, B64Onvis) >> @@ "0/40/3" :> "Eve Door")

NodeSet == {NodeEve, NodeEveAlone, NodeOnvis, NodeOff, NodeZero}

RECURSIVE SeqsUpTo(_, _)
\* the sequences over S of length at most n
SeqsUpTo(S, n) ==
    IF n = 0 THEN {<<>>}
    ELSE LET shorter == SeqsUpTo(S, n - 1)
         IN  shorter \cup {Append(q, x) : q \in shorter, x \in S}

Snapshots == SeqsUpTo(NodeSet, MaxNodes)

\* a websocket message is [text |-> ...] when it is no JSON text, and
\* [json |-> value] otherwise, a value being [list |-> l], [dict |-> d] or [str |-> x]
NotJson == [text |-> "ping"]

JsonList(l) == [list |-> l]
JsonDict(d) == [dict |-> d]
JsonStr(x) == [str |-> x]

Reply(id, result) == [json |-> JsonDict("message_id" :> id @@ "result" :> result)]

Messages ==
    {NotJson,
     [json |-> JsonList(<<>>)],
     [json |-> JsonDict("fabric_id" :> JsonStr("1"))],
     [json |-> JsonDict("message_id" :> "1" @@ "error_code" :> JsonStr("5"))],
     Reply("2", JsonList(<<>>)),
     Reply("1", JsonStr("busy"))}
    \cup {Reply("1", JsonList(ns)) : ns \in Snapshots}

-----------------------------------------------------------------------------
(* get_nodes *)

\* json.loads(response) raises JSONDecodeError
NotDecodable(msg) == "json" \notin DOMAIN msg

\* data.get raises AttributeError: the decoded value is no dict
NotADict(msg) == "dict" \notin DOMAIN msg.json

\* lines 278 and 280: the message answers the request with a list
IsReply(msg) ==
    LET data == msg.json.dict
    IN  /\ GetOpt(data, "message_id") = <<"1">>
        /\ "result" \in DOMAIN data
        /\ "list" \in DOMAIN data["result"]

-----------------------------------------------------------------------------
(* The program *)

Init ==
    /\ devices = <<>>
    /\ nodes = <<>>
    /\ pc = "send"
    /\ i = 1
    /\ caller = "main"
    /\ device = None
    /\ G = EmptyGraph
    /\ calls = <<>>
    /\ sent = 0
    /\ response = None
    /\ file = None
    /\ err = "none"
    /\ refreshes = 0

\* an exception leaves the running handler: at startup the script ends with a
\* traceback; in the button's callback Tk reports it and the main loop goes on
Abort(e) ==
    /\ err' = e
    /\ pc' = IF caller = "main" THEN "exited" ELSE "idle"
    /\ nodes' = <<>>
    /\ device' = None
    /\ response' = None
    /\ i' = 1

\* position after the body of a loop over nodes has run for node i
LoopNext(loop, after) ==
    /\ pc' = IF i < Len(nodes) THEN loop ELSE after
    /\ i' = IF i < Len(nodes) THEN i + 1 ELSE 1

\* line 272
Send ==
    /\ pc = "send"
    /\ sent' = sent + 1
    /\ pc' = "recv"
    /\ UNCHANGED <<devices, nodes, i, caller, device, G, calls, response, file, err, refreshes>>

\* line 274
Recv ==
    /\ pc = "recv"
    /\ \E msg \in Messages : response' = <<msg>>
    /\ pc' = "decode"
    /\ UNCHANGED <<devices, nodes, i, caller, device, G, calls, sent, file, err, refreshes>>

\* lines 276, 284-285: JSONDecodeError is caught and the loop goes on
DecodeFails ==
    /\ pc = "decode"
    /\ NotDecodable(response[1])
    /\ pc' = "recv"
    /\ UNCHANGED <<devices, nodes, i, caller, device, G, calls, sent, response, file, err, refreshes>>

\* line 278 on a decoded value that is no dict: AttributeError, which no
\* except clause of get_nodes catches
GetRaises ==
    /\ pc = "decode"
    /\ ~NotDecodable(response[1])
    /\ NotADict(response[1])
    /\ Abort("AttributeError")
    /\ UNCHANGED <<devices, caller, G, calls, sent, file, refreshes>>

\* lines 278-280 false: back to recv
Discard ==
    /\ pc = "decode"
    /\ ~NotDecodable(response[1])
    /\ ~NotADict(response[1])
    /\ ~IsReply(response[1])
    /\ pc' = "recv"
    /\ UNCHANGED <<devices, nodes, i, caller, device, G, calls, sent, response, file, err, refreshes>>

\* lines 279-283 and 288: nodes.json is written and get_nodes returns the list
Return ==
    /\ pc = "decode"
    /\ ~NotDecodable(response[1])
    /\ ~NotADict(response[1])
    /\ IsReply(response[1])
    /\ LET result == response[1].json.dict["result"].list
       IN  /\ file' = <<result>>
           /\ nodes' = result
           /\ pc' = IF Len(result) = 0 THEN "static" ELSE "init"
    /\ response' = None
    /\ i' = 1
    /\ UNCHANGED <<devices, caller, device, G, calls, sent, err, refreshes>>

\* init_devices_from_neighbors_table, one node
InitStep ==
    /\ pc = "init"
    /\ devices' = InitNode(devices, nodes[i])
    /\ LoopNext("init", "fill_id")
    /\ UNCHANGED <<nodes, caller, device, G, calls, sent, response, file, err, refreshes>>

\* fill_node_id, one node of its loop over nodes
FillIdStep ==
    /\ pc = "fill_id"
    /\ devices' = FillNodeIdNode(devices, nodes[i])
    /\ LoopNext("fill_id", "static")
    /\ UNCHANGED <<nodes, caller, device, G, calls, sent, response, file, err, refreshes>>

\* fill_node_id after its loop over nodes: the static pass and the sort
StaticStep ==
    /\ pc = "static"
    /\ devices' = StaticAndSort(devices)
    /\ pc' = IF Len(nodes) = 0 THEN "plot" ELSE "fill_info"
    /\ UNCHANGED <<nodes, i, caller, device, G, calls, sent, response, file, err, refreshes>>

\* fill_info, one node; after the last one update_devices_info returns
FillInfoStep ==
    /\ pc = "fill_info"
    /\ devices' = FillInfoNode(devices, nodes[i])
    /\ LoopNext("fill_info", "plot")
    /\ UNCHANGED <<nodes, caller, device, G, calls, sent, response, file, err, refreshes>>

\* plot_thread_topology, lines 201-211: a new graph with the devices as nodes
PlotNodes ==
    /\ pc = "plot"
    /\ G' = AddDeviceNodes(EmptyGraph, devices)
    /\ calls' = <<>>
    /\ device' = None
    /\ pc' = IF Len(nodes) = 0 THEN "draw" ELSE "edges"
    /\ UNCHANGED <<devices, nodes, i, caller, sent, response, file, err, refreshes>>

\* lines 214-221 when no device has the node's id and `device` was never
\* assigned: reading it raises UnboundLocalError
PlotUnbound ==
    /\ pc = "edges"
    /\ LookupDevice(devices, device, nodes[i]) = None
    /\ Abort("UnboundLocalError")
    /\ UNCHANGED <<devices, caller, G, calls, sent, file, refreshes>>

\* lines 214-226 when line 225 skips the node
PlotSkip ==
    /\ pc = "edges"
    /\ LET held == LookupDevice(devices, device, nodes[i])
       IN  /\ held # None
           /\ SkipsNode(held[1])
           /\ device' = held
    /\ LoopNext("edges", "draw")
    /\ UNCHANGED <<devices, nodes, caller, G, calls, sent, response, file, err, refreshes>>

\* lines 214-236 when the node's neighbor entries become edges
PlotEdges ==
    /\ pc = "edges"
    /\ LET held == LookupDevice(devices, device, nodes[i])
       IN  /\ held # None
           /\ ~SkipsNode(held[1])
           /\ device' = held
           /\ LET cs == EdgeCalls(held[1], Neighbors(nodes[i]))
              IN  /\ calls' = calls \o cs
                  /\ G' = ApplyCalls(G, cs)
    /\ LoopNext("edges", "draw")
    /\ UNCHANGED <<devices, nodes, caller, sent, response, file, err, refreshes>>

\* lines 239-259: the labels and colours of all nodes are read (KeyError for a
\* node add_edge created), the graph is drawn and the handler returns
Draw ==
    /\ pc = "draw"
    /\ IF \E n \in DOMAIN G.nodes : "label" \notin DOMAIN G.nodes[n]
       THEN Abort("KeyError")
       ELSE /\ pc' = "idle"
            /\ nodes' = <<>>
            /\ device' = None
            /\ UNCHANGED <<i, response, err>>
    /\ UNCHANGED <<devices, caller, G, calls, sent, file, refreshes>>

\* a click on the Refresh button: on_refresh (lines 261-264)
Refresh ==
    /\ pc = "idle"
    /\ refreshes < MaxRefresh
    /\ refreshes' = refreshes + 1
    /\ caller' = "on_refresh"
    /\ pc' = "send"
    /\ sent' = 0
    /\ err' = "none"
    /\ UNCHANGED <<devices, nodes, i, device, G, calls, response, file>>

Next ==
    \/ Send
    \/ Recv
    \/ DecodeFails
    \/ GetRaises
    \/ Discard
    \/ Return
    \/ InitStep
    \/ FillIdStep
    \/ StaticStep
    \/ FillInfoStep
    \/ PlotNodes
    \/ PlotUnbound
    \/ PlotSkip
    \/ PlotEdges
    \/ Draw
    \/ Refresh

Spec == Init /\ [][Next]_vars

-----------------------------------------------------------------------------
(* Vocabulary of the properties *)

\* the handler is in one of the three passes over the nodes, about to process nodes[i]
InPass == pc \in {"init", "fill_id", "fill_info"}

LacksAttributes(node) == "attributes" \notin DOMAIN node
LacksNeighborTable(node) == "0/53/7" \notin DOMAIN Attrs(node)
LacksInterfaceList(node) == "0/51/0" \notin DOMAIN Attrs(node)

\* the device of devs with hardware address ext
DeviceAt(devs, ext) == devs[CHOOSE k \in 1..Len(devs) : devs[k].ext_addr = ext]

\* the nodes of ns with a Thread-type interface whose hardware address is ext
ThreadNodes(ns, ext) ==
    {k \in 1..Len(ns) :
        \E j \in 1..Len(Interfaces(ns[k])) :
            /\ GetOpt(Interfaces(ns[k])[j], "7") = <<4>>
            /\ bas64_to_eui64(GetOpt(Interfaces(ns[k])[j], "4")) = ext}

\* the nodes of ns with node_id id
NodesWithId(ns, id) == {k \in 1..Len(ns) : ns[k]["node_id"] = id}

DistinctNodeIds(ns) == \A j, k \in 1..Len(ns) : ns[j]["node_id"] = ns[k]["node_id"] => j = k

Max(S) == CHOOSE x \in S : \A y \in S : y <= x

\* maximum LQI of a non-empty neighbor table
MaxLqi(neighbors) == Max({Get(neighbors[k], "5", 0) : k \in 1..Len(neighbors)})

\* greatest last-RSSI among the entries with the maximum LQI
RssiAtMaxLqi(neighbors) ==
    Max({Get(neighbors[k], "7", 0) :
            k \in {j \in 1..Len(neighbors) : Get(neighbors[j], "5", 0) = MaxLqi(neighbors)}})

RECURSIVE EntryCount(_)
\* number of neighbor entries of a snapshot
EntryCount(ns) == IF Len(ns) = 0 THEN 0 ELSE Len(Neighbors(Head(ns))) + EntryCount(Tail(ns))

\* the graph of the last plot is the one built from the current registry
GraphBuilt == pc \in {"edges", "draw", "idle", "exited"}

\* index in calls of the last add_edge call for edge e
LastCall(e) ==
    CHOOSE a \in 1..Len(calls) :
        /\ {calls[a].u, calls[a].v} = e
        /\ \A b \in (a + 1)..Len(calls) : {calls[b].u, calls[b].v} # e

-----------------------------------------------------------------------------
(* C1 *)

\* C1: at every point of every run of update_devices_info, at startup and in
\* any refresh, no two records of the devices list have the same ext_addr.
C1_UniqueExtAddr ==
    \A j, k \in 1..Len(devices) : devices[j].ext_addr = devices[k].ext_addr => j = k

\* a refresh has completed on a snapshot that names some address more than
\* once, and the registry holds several devices
C1_Witness ==
    /\ pc = "plot"
    /\ refreshes >= 1
    /\ Len(devices) >= 2
    /\ EntryCount(nodes) > Len(devices)

-----------------------------------------------------------------------------
(* C2 *)

\* C2: the static table is only a fallback.  In the step that ends
\* fill_node_id (static pass and sort), every device whose ext_addr is the
\* hardware address of a Thread-type interface of some node leaves the step
\* with the node_id and product name (0/40/3) of such a node, and a device whose
\* id or product_name the step changes was resolved by no network interface
\* and takes the id and product_name of the static entry with its ext_addr.
C2_StaticIsFallback ==
    [][pc = "static" =>
        \A k \in 1..Len(devices) :
            LET old == devices[k]
                new == DeviceAt(devices', old.ext_addr)
                by == ThreadNodes(nodes, old.ext_addr)
            IN  /\ by # {} =>
                    \E n \in by :
                        /\ new.id = nodes[n]["node_id"]
                        /\ new.product_name = Get(Attrs(nodes[n]), "0/40/3", "")
                /\ (new.id # old.id \/ new.product_name # old.product_name) =>
                    /\ by = {}
                    /\ \E s \in 1..Len(static_devices_info) :
                           /\ static_devices_info[s].ext_addr = old.ext_addr
                           /\ new.id = static_devices_info[s].id
                           /\ new.product_name = static_devices_info[s].product_name]_vars

-----------------------------------------------------------------------------
(* C3 *)

\* C3: when update_devices_info returns, the registry is the one a single run
\* from an empty registry produces on the snapshot just fetched: the same
\* devices with the same id, rloc16, is_child, available, best_lqi, best_rssi
\* and product_name.
C3_RegistryFromLatestSnapshot ==
    pc = "plot" => Range(devices) = Range(UpdateDevices(<<>>, nodes))

-----------------------------------------------------------------------------
(* C4 *)

\* C4 as claimed: the colour of an edge is determined by the LQI of the neighbor
\* entry that produced it, so two add_edge calls with the same LQI carry the
\* same colour.
C4_ColourByLqi ==
    \A a, b \in 1..Len(calls) : calls[a].lqi = calls[b].lqi => calls[a].color = calls[b].color

\* C4 as amended: the colour of an edge is determined by the last RSSI (field
\* "7", -100 when absent) of the neighbor entry that produced it, and its width
\* by the LQI: two add_edge calls with the same RSSI carry the same colour, two
\* with the same LQI the same width, and every edge of the graph has the colour
\* and width of the last call made for it.
C4_ColourByRssi ==
    /\ \A a, b \in 1..Len(calls) :
          /\ calls[a].rssi = calls[b].rssi => calls[a].color = calls[b].color
          /\ calls[a].lqi = calls[b].lqi => calls[a].width = calls[b].width
    /\ GraphBuilt =>
          /\ DOMAIN G.edges = {{calls[a].u, calls[a].v} : a \in 1..Len(calls)}
          /\ \A e \in DOMAIN G.edges :
                /\ G.edges[e].color = calls[LastCall(e)].color
                /\ G.edges[e].width = calls[LastCall(e)].width

\* a plot has made two add_edge calls for entries with the same RSSI and
\* different LQI
C4_Witness ==
    /\ pc = "draw"
    /\ \E a, b \in 1..Len(calls) : calls[a].rssi = calls[b].rssi /\ calls[a].lqi # calls[b].lqi

-----------------------------------------------------------------------------
(* C5 *)

\* the received message has message_id "1" and a result that is a list
AnswersRequest(msg) == ~NotDecodable(msg) /\ ~NotADict(msg) /\ IsReply(msg)

\* C5: get_nodes sends exactly one request; a received message that has
\* message_id "1" and a list as result is written to nodes.json and returned;
\* every other received message is discarded: the wait goes on, nothing is
\* sent, written or raised.
C5_FireAndWait ==
    [][/\ sent' <= 1
       /\ pc = "decode" =>
             IF AnswersRequest(response[1])
             THEN /\ nodes' = response[1].json.dict["result"].list
                  /\ file' = <<nodes'>>
                  /\ pc' \in {"init", "static"}
             ELSE /\ pc' = "recv"
                  /\ sent' = sent
                  /\ file' = file
                  /\ err' = "none"]_vars

-----------------------------------------------------------------------------
(* C6 *)

\* devs2 is devs1 with no device added and no id, product_name, best_lqi or
\* best_rssi changed
SameButAvailable(devs1, devs2) ==
    /\ Len(devs2) = Len(devs1)
    /\ \A k \in 1..Len(devs1) : devs2[k] = [devs1[k] EXCEPT !.available = devs2[k].available]

\* C6 as claimed: when the node a pass processes lacks "attributes", the
\* neighbor table "0/53/7" or the interface list "0/51/0", the pass raises
\* nothing and the node adds no device, assigns no id or product name and
\* changes no best_lqi or best_rssi.
C6_MissingDataChangesNothing ==
    [][(/\ InPass
        /\ \/ LacksAttributes(nodes[i])
           \/ LacksNeighborTable(nodes[i])
           \/ LacksInterfaceList(nodes[i]))
       => /\ err' = "none"
          /\ SameButAvailable(devices, devices')]_vars

\* C6 as amended: when the node a pass processes lacks "attributes", the
\* neighbor table or the interface list, the pass raises nothing and goes on;
\* a node without neighbor table (or without "attributes") adds no device and
\* changes no best_lqi or best_rssi, and a node without interface list (or
\* without "attributes") assigns no id or product name.  A node that lacks only
\* one of the two lists still contributes through the other.
C6_MissingDataFallsBack ==
    [][/\ (InPass /\ (LacksNeighborTable(nodes[i]) \/ LacksInterfaceList(nodes[i])))
          => (err' = "none" /\ pc' \in {"init", "fill_id", "static", "fill_info", "plot"})
       /\ (pc = "init" /\ LacksNeighborTable(nodes[i])) => devices' = devices
       /\ (pc = "fill_id" /\ LacksInterfaceList(nodes[i])) => devices' = devices
       /\ (pc = "fill_info" /\ LacksNeighborTable(nodes[i]))
          => SameButAvailable(devices, devices')]_vars

\* update_devices_info has returned without error on a snapshot holding a node
\* without "attributes" whose id is a device's and whose best link is known, and
\* a node that lacks the interface list alone
C6_Witness ==
    /\ pc = "plot"
    /\ err = "none"
    /\ \E j, k \in 1..Len(nodes) :
          /\ LacksAttributes(nodes[j])
          /\ \E d \in 1..Len(devices) :
                devices[d].id = nodes[j]["node_id"] /\ devices[d].best_lqi > 0
          /\ LacksInterfaceList(nodes[k]) /\ ~LacksNeighborTable(nodes[k])

-----------------------------------------------------------------------------
(* C7 *)

\* C7: when plot_thread_topology processes a node whose node_id is no
\* device's id, no add_edge call is made and no edge of the graph changes:
\* none of the node's neighbor entries becomes an edge, of any device.
C7_UnmatchedNodeIsSkipped ==
    [][(pc = "edges" /\ \A k \in 1..Len(devices) : devices[k].id # nodes[i]["node_id"])
       => (calls' = calls /\ G' = G)]_vars

-----------------------------------------------------------------------------
(* C8 *)

\* C8: when the first run of update_devices_info (on the empty registry)
\* returns on a snapshot whose nodes have distinct node_ids, every device whose
\* id is a node's node_id has that node's "available" value (False when
\* absent), best_lqi equal to the maximum LQI of the node's neighbor entries and
\* best_rssi equal to the greatest last RSSI among the entries with that LQI
\* (0 and 0 for a node without entries); every other device has best_lqi = 0,
\* best_rssi = 0 and available = True.
C8_BestLink ==
    (pc = "plot" /\ refreshes = 0 /\ DistinctNodeIds(nodes)) =>
        \A k \in 1..Len(devices) :
            LET dev == devices[k]
                of == NodesWithId(nodes, dev.id)
            IN  IF of = {}
                THEN dev.best_lqi = 0 /\ dev.best_rssi = 0 /\ dev.available = TRUE
                ELSE \A n \in of :
                        /\ dev.available = Get(nodes[n], "available", FALSE)
                        /\ IF Len(Neighbors(nodes[n])) = 0
                           THEN dev.best_lqi = 0 /\ dev.best_rssi = 0
                           ELSE /\ dev.best_lqi = MaxLqi(Neighbors(nodes[n]))
                                /\ dev.best_rssi = RssiAtMaxLqi(Neighbors(nodes[n]))

-----------------------------------------------------------------------------
(* C9 *)

\* C9: the graph of plot_thread_topology has exactly one node per registry
\* device, grey when the device is unavailable, otherwise lightgreen when it is
\* a child, otherwise skyblue; every add_edge call originates from a device that
\* is available and no child; and a node whose device is a child or unavailable
\* adds no edge.
C9_NodesAndEdgeOrigins ==
    /\ [](GraphBuilt =>
            /\ DOMAIN G.nodes = {devices[k].ext_addr : k \in 1..Len(devices)}
            /\ \A k \in 1..Len(devices) :
                  /\ "color" \in DOMAIN G.nodes[devices[k].ext_addr]
                  /\ G.nodes[devices[k].ext_addr].color =
                        (IF ~devices[k].available THEN "grey"
                         ELSE IF devices[k].is_child THEN "lightgreen" ELSE "skyblue")
            /\ \A a \in 1..Len(calls) :
                  \E k \in 1..Len(devices) :
                      /\ devices[k].ext_addr = calls[a].u
                      /\ devices[k].available
                      /\ ~devices[k].is_child)
    /\ [][(/\ pc = "edges"
            /\ \E k \in 1..Len(devices) : devices[k].id = nodes[i]["node_id"]
            /\ LET dev == devices[FirstWithId(devices, nodes[i]["node_id"])]
               IN  dev.is_child \/ ~dev.available)
           => (calls' = calls /\ G' = G)]_vars

\* a plot has drawn edges from a router while a node of the snapshot whose
\* device is a child brought neighbor entries of its own, and the graph has a
\* lightgreen and a skyblue node
C9_Witness ==
    /\ pc = "draw"
    /\ Len(calls) >= 1
    /\ {"lightgreen", "skyblue"} \subseteq
          {G.nodes[devices[k].ext_addr].color : k \in 1..Len(devices)}
    /\ \E n \in 1..Len(nodes) :
          /\ Len(Neighbors(nodes[n])) >= 1
          /\ \E k \in 1..Len(devices) : devices[k].id = nodes[n]["node_id"]
          /\ devices[FirstWithId(devices, nodes[n]["node_id"])].is_child

====
